---- MODULE Spec2Model ----
(***************************************************************************)
(* A model of bevy_svg's mesh-building core:                               *)
(*   - PathConvIter (src/svg.rs), the path event normalizer,               *)
(*   - BufferExt for VertexBuffers (src/render/vertex_buffer.rs),          *)
(*   - Convert<Mesh> for (VertexBuffers, Vec2, Vec2) and                   *)
(*     Origin::get_relative_offset (src/origin.rs),                        *)
(*   - Svg::from_tree (src/svg.rs).                                        *)
(* Coordinates are small integers: every f64 -> f32 narrowing and every    *)
(* f32 product or sum used below is exact on them.                         *)
(***************************************************************************)
EXTENDS Integers, Sequences, FiniteSets, TLC

\* Longest segment stream the source iterator of a path hands out.
MaxSegs == 4

\* Most source buffers merged into one target, most calls of extend or
\* extend_one on it, and most buffers handed to one call of extend.
MaxMerged == 3
MaxCalls == 3
MaxBatch == 3

\* Most nodes tree.root.descendants() hands out.
MaxNodes == 3
MaxPaths == 3
MaxEntities == 2
MaxChanges == 1

\* Option::None, for events, segments and meshes alike.
None == [t |-> "None"]

-----------------------------------------------------------------------------
(* usvg::PathSegment values the source iterator can hand out. *)

Points == {<<1, 2>>, <<2, 1>>, <<3, 3>>}

MoveToSeg(x, y) == [t |-> "MoveTo", x |-> x, y |-> y]
LineToSeg(x, y) == [t |-> "LineTo", x |-> x, y |-> y]
CurveToSeg(x1, y1, x2, y2, x, y) ==
    [t |-> "CurveTo", x1 |-> x1, y1 |-> y1, x2 |-> x2, y2 |-> y2, x |-> x, y |-> y]
ClosePathSeg == [t |-> "ClosePath"]

Segments ==
    {MoveToSeg(p[1], p[2]) : p \in Points}
        \cup {LineToSeg(p[1], p[2]) : p \in Points}
        \cup {CurveToSeg(1, 3, 3, 1, p[1], p[2]) : p \in {<<2, 1>>, <<3, 3>>}}
        \cup {ClosePathSeg}

\* The diagonal components a and d of a path's local transform.
TransformVals == {-1, 0, 1}

-----------------------------------------------------------------------------
(* lyon_path::PathEvent *)

Begin(at) == [t |-> "Begin", at |-> at]
Line(from, to) == [t |-> "Line", from |-> from, to |-> to]
Cubic(from, ctrl1, ctrl2, to) ==
    [t |-> "Cubic", from |-> from, ctrl1 |-> ctrl1, ctrl2 |-> ctrl2, to |-> to]
End(last, first, close) ==
    [t |-> "End", last |-> last, first |-> first, close |-> close]

\* Convert<Point> for (f64, f64): Point::new(x as f32, y as f32).
ConvertPoint(x, y) == <<x, y>>

\* lyon_geom::Transform::scale(sx, sy) applied to a point.
TransformPoint(scale, p) == <<p[1] * scale[1], p[2] * scale[2]>>

\* PathEvent::transformed(&self.scale): every point of the event is mapped.
Transformed(ev, scale) ==
    CASE ev.t = "Begin" -> Begin(TransformPoint(scale, ev.at))
      [] ev.t = "Line" ->
            Line(TransformPoint(scale, ev.from), TransformPoint(scale, ev.to))
      [] ev.t = "Cubic" ->
            Cubic(TransformPoint(scale, ev.from), TransformPoint(scale, ev.ctrl1),
                  TransformPoint(scale, ev.ctrl2), TransformPoint(scale, ev.to))
      [] ev.t = "End" ->
            End(TransformPoint(scale, ev.last), TransformPoint(scale, ev.first),
                ev.close)

\* The sign-only scale built from the path's local transform.
SignScale(a, d) == <<IF a < 0 THEN -1 ELSE 1, IF d < 0 THEN -1 ELSE 1>>

\* Convert<PathConvIter> for &usvg::Path: the iterator as constructed.
NewPathConvIter(a, d) ==
    [prev |-> <<0, 0>>, first |-> <<0, 0>>, needs_end |-> FALSE,
     deferred |-> None, scale |-> SignScale(a, d)]

-----------------------------------------------------------------------------
(* PathConvIter::next, one operator per match arm.  Each yields the        *)
(* iterator's new fields (st) and return_event before the final map (ev).  *)

\* OnMoveTo with self.prev assigned before `last` is read from it.
OnMoveToEndAtNewPoint(st, x, y) ==
    IF st.needs_end
    THEN LET p == ConvertPoint(x, y)
             last == p
             first == st.first
         IN  [st |-> [st EXCEPT !.needs_end = FALSE, !.prev = p,
                                !.deferred = Begin(p), !.first = p],
              ev |-> End(last, first, FALSE)]
    ELSE LET p == ConvertPoint(x, y)
         IN  [st |-> [st EXCEPT !.first = p], ev |-> Begin(p)]

OnMoveTo(st, x, y) ==
    IF st.needs_end
    THEN LET last == st.prev
             first == st.first
             p == ConvertPoint(x, y)
         IN  [st |-> [st EXCEPT !.needs_end = FALSE, !.prev = p,
                                !.deferred = Begin(p), !.first = p],
              ev |-> End(last, first, FALSE)]
    ELSE LET p == ConvertPoint(x, y)
         IN  [st |-> [st EXCEPT !.first = p], ev |-> Begin(p)]

OnLineTo(st, x, y) ==
    LET from == st.prev
        p == ConvertPoint(x, y)
    IN  [st |-> [st EXCEPT !.needs_end = TRUE, !.prev = p],
         ev |-> Line(from, p)]

OnCurveTo(st, x1, y1, x2, y2, x, y) ==
    LET from == st.prev
        p == ConvertPoint(x, y)
    IN  [st |-> [st EXCEPT !.needs_end = TRUE, !.prev = p],
         ev |-> Cubic(from, ConvertPoint(x1, y1), ConvertPoint(x2, y2), p)]

\* OnClosePath without its first assignment: self.needs_end is left as it is.
OnClosePathKeepsOpen(st) ==
    LET closed == [st EXCEPT !.prev = st.first]
    IN  [st |-> closed, ev |-> End(closed.prev, closed.first, TRUE)]

\* OnClosePath with the End built before self.prev is reset.
OnClosePathLastIsPrev(st) ==
    [st |-> [st EXCEPT !.needs_end = FALSE, !.prev = st.first],
     ev |-> End(st.prev, st.first, TRUE)]

\* self.prev is reset to self.first before the End is built from it.
OnClosePath(st) ==
    LET closed == [st EXCEPT !.needs_end = FALSE, !.prev = st.first]
    IN  [st |-> closed, ev |-> End(closed.prev, closed.first, TRUE)]

\* OnSourceEnd without `self.needs_end = false`.
OnSourceEndKeepsOpen(st) ==
    IF st.needs_end
    THEN [st |-> st, ev |-> End(st.prev, st.first, FALSE)]
    ELSE [st |-> st, ev |-> None]

OnSourceEnd(st) ==
    IF st.needs_end
    THEN [st |-> [st EXCEPT !.needs_end = FALSE],
          ev |-> End(st.prev, st.first, FALSE)]
    ELSE [st |-> st, ev |-> None]

\* The match on self.iter.next(), then return_event.map(transformed).
MatchSegment(st, nxt) ==
    LET r == CASE nxt.t = "MoveTo" -> OnMoveTo(st, nxt.x, nxt.y)
               [] nxt.t = "LineTo" -> OnLineTo(st, nxt.x, nxt.y)
               [] nxt.t = "CurveTo" ->
                     OnCurveTo(st, nxt.x1, nxt.y1, nxt.x2, nxt.y2, nxt.x, nxt.y)
               [] nxt.t = "ClosePath" -> OnClosePath(st)
               [] nxt.t = "None" -> OnSourceEnd(st)
    IN  [st |-> r.st,
         raw |-> r.ev,
         ev |-> IF r.ev = None THEN None ELSE Transformed(r.ev, st.scale)]

\* The early return: self.deferred.take().
TakeDeferred(st) ==
    [st |-> [st EXCEPT !.deferred = None], raw |-> st.deferred, ev |-> st.deferred]

-----------------------------------------------------------------------------
(* Vertex and VertexBuffers (render/vertex_buffer.rs). *)

\* IndexType = u32.  Vertex counts and indices here stay far below 2^32, so
\* `len() as u32` keeps the length and `idx + offset` never overflows.

Vertex(x, y, z, color) == [position |-> <<x, y, z>>, color |-> color]
VertexBuffers(vertices, indices) == [vertices |-> vertices, indices |-> indices]

Red == <<1, 0, 0, 1>>
Blue == <<0, 0, 1, 1>>

EmptyBuffers == VertexBuffers(<<>>, <<>>)
TriangleBuffers ==
    VertexBuffers(<<Vertex(0, 0, 0, Red), Vertex(4, 0, 0, Red), Vertex(0, 4, 0, Red)>>,
                  <<0, 1, 2>>)
SquareBuffers ==
    VertexBuffers(<<Vertex(1, 1, 5, Blue), Vertex(3, 1, 5, Blue),
                    Vertex(3, 3, 5, Blue), Vertex(1, 3, 5, Blue)>>,
                  <<0, 1, 2, 0, 2, 3>>)
\* Two buffers that break the VertexBuffers invariant: an index that names no
\* vertex, and an index count that is no whole number of triangles.
OutOfBoundsBuffers == VertexBuffers(<<Vertex(2, 2, 0, Red)>>, <<0, 0, 1>>)
PartialTriangleBuffers ==
    VertexBuffers(<<Vertex(5, 5, 0, Blue), Vertex(6, 5, 0, Blue)>>, <<0, 1>>)

SourceBuffers ==
    {EmptyBuffers, TriangleBuffers, SquareBuffers, OutOfBoundsBuffers,
     PartialTriangleBuffers}

\* idx + offset for each index of a source buffer, in order.
OffsetIndices(indices, offset) ==
    [i \in 1..Len(indices) |-> indices[i] + offset]

\* extend_one with the offset read after the vertices were pushed.
ExtendOneLateOffset(self, item) ==
    LET vertices == self.vertices \o item.vertices
        offset == Len(vertices)
    IN  VertexBuffers(vertices, self.indices \o OffsetIndices(item.indices, offset))

\* extend_one pushing the indices as they are.
ExtendOneNoOffset(self, item) ==
    VertexBuffers(self.vertices \o item.vertices, self.indices \o item.indices)

\* BufferExt::extend_one
ExtendOne(self, item) ==
    LET offset == Len(self.vertices)
    IN  VertexBuffers(self.vertices \o item.vertices,
                      self.indices \o OffsetIndices(item.indices, offset))

\* The loop of extend without `offset += num_verts`.
RECURSIVE ExtendLoopStaleOffset(_, _, _)
ExtendLoopStaleOffset(self, offset, iter) ==
    IF iter = <<>>
    THEN self
    ELSE LET buf == Head(iter)
         IN  ExtendLoopStaleOffset(
                 VertexBuffers(self.vertices \o buf.vertices,
                               self.indices \o OffsetIndices(buf.indices, offset)),
                 offset, Tail(iter))

\* The loop of BufferExt::extend over the buffers of iter, offset running.
RECURSIVE ExtendLoop(_, _, _)
ExtendLoop(self, offset, iter) ==
    IF iter = <<>>
    THEN self
    ELSE LET buf == Head(iter)
             num_verts == Len(buf.vertices)
         IN  ExtendLoop(
                 VertexBuffers(self.vertices \o buf.vertices,
                               self.indices \o OffsetIndices(buf.indices, offset)),
                 offset + num_verts, Tail(iter))

\* BufferExt::extend
Extend(self, iter) == ExtendLoop(self, Len(self.vertices), iter)

\* Every sequence of source buffers of length lo..hi.
Batches(lo, hi) == UNION {[1..n -> SourceBuffers] : n \in lo..hi}

-----------------------------------------------------------------------------
(* Origin (origin.rs) and the conversion of a buffer to a Mesh. *)

Named(kind) == [kind |-> kind]
Custom(fx, fy) == [kind |-> "Custom", coord |-> <<fx, fy>>]

Origins ==
    {Named(k) : k \in {"BottomLeft", "BottomRight", "Center", "TopLeft", "TopRight"}}
        \cup {Custom(c[1], c[2]) : c \in {<<0, 0>>, <<1, 0>>, <<0, 1>>, <<2, -1>>}}

\* Svg::size values.
Sizes == {<<100, 50>>, <<7, 3>>}

\* get_relative_offset with the coordinates of Custom exchanged.
GetRelativeOffsetSwapped(origin) ==
    IF origin.kind = "Custom" THEN <<origin.coord[2], origin.coord[1]>> ELSE <<0, 0>>

\* Origin::get_relative_offset
GetRelativeOffset(origin) ==
    IF origin.kind = "Custom" THEN <<origin.coord[1], origin.coord[2]>> ELSE <<0, 0>>

\* The conversion with the Y offset added to Z as well.
ConvertMeshShiftsZ(buffer, size, origin) ==
    LET offset == <<(0 - size[1]) * origin[1], size[2] * origin[2]>>
    IN  [positions |->
             [i \in 1..Len(buffer.vertices) |->
                 <<buffer.vertices[i].position[1] + offset[1],
                   buffer.vertices[i].position[2] + offset[2],
                   buffer.vertices[i].position[3] + offset[2]>>],
         colors |-> [i \in 1..Len(buffer.vertices) |-> buffer.vertices[i].color],
         indices |-> buffer.indices,
         topology |-> "TriangleList"]

\* Convert<Mesh> for (VertexBuffers, Vec2, Vec2); origin is the Vec2.
ConvertMesh(buffer, size, origin) ==
    LET offset == <<(0 - size[1]) * origin[1], size[2] * origin[2]>>
    IN  [positions |->
             [i \in 1..Len(buffer.vertices) |->
                 <<buffer.vertices[i].position[1] + offset[1],
                   buffer.vertices[i].position[2] + offset[2],
                   buffer.vertices[i].position[3]>>],
         colors |-> [i \in 1..Len(buffer.vertices) |-> buffer.vertices[i].color],
         indices |-> buffer.indices,
         topology |-> "TriangleList"]

-----------------------------------------------------------------------------
(* Svg::from_tree: the nodes of a usvg::Tree and the descriptors built.    *)

\* path.convert().collect(): next() is called until it returns None.
RECURSIVE CollectEvents(_, _, _)
CollectEvents(st, data, acc) ==
    IF st.deferred # None
    THEN LET r == TakeDeferred(st) IN CollectEvents(r.st, data, Append(acc, r.ev))
    ELSE IF data = <<>>
         THEN LET r == MatchSegment(st, None)
              IN  IF r.ev = None THEN acc
                  ELSE CollectEvents(r.st, data, Append(acc, r.ev))
         ELSE LET r == MatchSegment(st, Head(data))
              IN  CollectEvents(r.st, Tail(data), Append(acc, r.ev))

\* usvg::Paint
SolidPaint(red, green, blue) ==
    [t |-> "Color", red |-> red, green |-> green, blue |-> blue]
GradientPaint == [t |-> "LinearGradient"]
PatternPaint == [t |-> "Pattern"]

\* usvg::Fill and usvg::Stroke; opacity is 0 or 1.
Fills ==
    {[paint |-> SolidPaint(255, 0, 0), opacity |-> 1],
     [paint |-> GradientPaint, opacity |-> 1]}
Strokes ==
    {[paint |-> SolidPaint(0, 0, 255), opacity |-> 0, width |-> 2,
      linecap |-> "Butt", linejoin |-> "Miter"],
     [paint |-> PatternPaint, opacity |-> 1, width |-> 1,
      linecap |-> "Round", linejoin |-> "Bevel"]}

\* The geometry of a Path node: its local transform's a and d, the node's
\* absolute transform (a, b, c, d, e, f) and its segments.
Shapes ==
    {[transform |-> <<-1, 1>>,
      abs_transform |-> [a |-> -2, b |-> 0, c |-> 0, d |-> 3, e |-> 1, f |-> 1],
      data |-> <<MoveToSeg(1, 2), LineToSeg(2, 1), LineToSeg(3, 3), ClosePathSeg>>],
     [transform |-> <<1, 1>>,
      abs_transform |-> [a |-> 2, b |-> 0, c |-> 0, d |-> -3, e |-> 0, f |-> 4],
      data |-> <<MoveToSeg(1, 2), LineToSeg(3, 3)>>]}

\* usvg::NodeKind: a Path, or a kind from_tree passes over.
GroupNode == [kind |-> "Group"]
PathNodes ==
    {[kind |-> "Path", fill |-> f, stroke |-> k, transform |-> g.transform,
      abs_transform |-> g.abs_transform, data |-> g.data] :
        f \in Fills \cup {None}, k \in Strokes \cup {None}, g \in Shapes}
Nodes == PathNodes \cup {GroupNode}

Abs(x) == IF x < 0 THEN 0 - x ELSE x

\* Transform::from_matrix(Mat4::from_cols(..)): the four columns.
AbsTransform(t) ==
    <<<<Abs(t.a), t.b, 0, 0>>, <<t.c, Abs(t.d), 0, 0>>, <<0, 0, 1, 0>>,
      <<t.e, t.f, 0, 1>>>>

\* Color::default()
DefaultColor == [rgba_u8 |-> <<255, 255, 255, 255>>]

\* Opacity::to_u8 on the opacities 0 and 1.
OpacityToU8(opacity) == opacity * 255

\* The match on the paint, in from_tree for a fill and in convert for a stroke.
PaintColor(paint, opacity) ==
    IF paint.t = "Color"
    THEN [rgba_u8 |-> <<paint.red, paint.green, paint.blue, OpacityToU8(opacity)>>]
    ELSE DefaultColor

\* Convert<(Color, DrawType)> for &usvg::Stroke
ConvertStroke(stroke) ==
    [color |-> PaintColor(stroke.paint, stroke.opacity),
     draw_type |->
         [t |-> "Stroke",
          options |-> [tolerance |-> "0.01", line_width |-> stroke.width,
                       start_cap |-> stroke.linecap, end_cap |-> stroke.linecap,
                       line_join |-> stroke.linejoin]]]

PathDescriptor(segments, abs_transform, color, draw_type) ==
    [segments |-> segments, abs_transform |-> abs_transform, color |-> color,
     draw_type |-> draw_type]

PathSegments(path) ==
    CollectEvents(NewPathConvIter(path.transform[1], path.transform[2]), path.data, <<>>)

FillDescriptors(path) ==
    IF path.fill # None
    THEN <<PathDescriptor(PathSegments(path), AbsTransform(path.abs_transform),
                          PaintColor(path.fill.paint, path.fill.opacity),
                          [t |-> "Fill"])>>
    ELSE <<>>

StrokeDescriptors(path) ==
    IF path.stroke # None
    THEN LET converted == ConvertStroke(path.stroke)
         IN  <<PathDescriptor(PathSegments(path), AbsTransform(path.abs_transform),
                              converted.color, converted.draw_type)>>
    ELSE <<>>

\* The arm for a Path with its two blocks exchanged.
PathDescriptorsStrokeFirst(path) == StrokeDescriptors(path) \o FillDescriptors(path)

\* The NodeKind::Path arm: what one Path node adds to descriptors.
PathDescriptors(path) == FillDescriptors(path) \o StrokeDescriptors(path)

-----------------------------------------------------------------------------
VARIABLES
    transform,  \* <<a, d>> of the usvg::Path the iterator was made from
    conv,       \* the PathConvIter: prev, first, needs_end, deferred, scale
    segs,       \* the segments self.iter has handed out so far
    exhausted,  \* self.iter has returned None
    ret,        \* what the last call of next() returned
    out,        \* every Some(event) returned so far, in order
    raw,        \* for each of them, the event as it was constructed
    src,        \* for each of them, how often self.iter.next() had been called
    \* merging with BufferExt
    target,     \* the VertexBuffers that extend and extend_one are called on
    hist,       \* every source buffer merged into it so far, in order
    calls,      \* the calls made on it: the method and the number of buffers
    pre,        \* target as it was before the last call
    args,       \* the buffers the last call was given
    \* converting to a Mesh
    buffer,     \* the merged VertexBuffers handed to convert
    size,       \* Svg::size
    origin,     \* the entity's Origin
    mesh,       \* the Mesh convert returned, None before the call
    \* Svg::from_tree
    visited,    \* the nodes tree.root.descendants() has handed out so far
    descriptors,\* the local Vec of from_tree
    desc_node,  \* for each descriptor, the index in visited of its Path node
    svg,        \* the Svg from_tree returned, None while the loop runs
    \* Svg::tessellate
    tess_results, \* the tessellator's result for each descriptor so far
    tess_buffer,  \* the buffer generate_buffer has merged so far
    tess_size,    \* self.size
    tess_mesh,    \* the Mesh tessellate returned, None before it returns
    \* the Origin systems
    entities,   \* the components of every entity carrying an Svg bundle
    svgs,       \* Assets<Svg>: the handles whose asset is present
    meshes,     \* Assets<Mesh>: every Mesh added, a handle is its index
    changes,    \* how often the application has set an Origin component
    outcome     \* for each entity, what the last cycle did with it

normVars == <<transform, conv, segs, exhausted, ret, out, raw, src>>
mergeVars == <<target, hist, calls, pre, args>>
meshVars == <<buffer, size, origin, mesh>>
treeVars == <<visited, descriptors, desc_node, svg>>
tessVars == <<tess_results, tess_buffer, tess_size, tess_mesh>>
originVars == <<entities, svgs, meshes, changes, outcome>>

vars == <<normVars, mergeVars, meshVars, treeVars, tessVars, originVars>>

\* How often self.iter.next() has been called.
Reads == Len(segs) + (IF exhausted THEN 1 ELSE 0)

\* The parts of the state a specification leaves alone.
IdleNorm ==
    /\ transform = <<1, 1>>
    /\ conv = NewPathConvIter(1, 1)
    /\ segs = <<>>
    /\ exhausted = FALSE
    /\ ret = None
    /\ out = <<>>
    /\ raw = <<>>
    /\ src = <<>>

IdleMerge ==
    /\ target = EmptyBuffers
    /\ hist = <<>>
    /\ calls = <<>>
    /\ pre = EmptyBuffers
    /\ args = <<>>

IdleMesh ==
    /\ buffer = EmptyBuffers
    /\ size = <<0, 0>>
    /\ origin = Named("TopLeft")
    /\ mesh = None

IdleTree ==
    /\ visited = <<>>
    /\ descriptors = <<>>
    /\ desc_node = <<>>
    /\ svg = None

IdleTess ==
    /\ tess_results = <<>>
    /\ tess_buffer = EmptyBuffers
    /\ tess_size = <<0, 0>>
    /\ tess_mesh = None

IdleOrigin ==
    /\ entities = <<>>
    /\ svgs = {}
    /\ meshes = <<>>
    /\ changes = 0
    /\ outcome = <<>>

InitNorm ==
    /\ IdleMerge /\ IdleMesh /\ IdleTree /\ IdleTess /\ IdleOrigin
    /\ transform \in TransformVals \X TransformVals
    /\ conv = NewPathConvIter(transform[1], transform[2])
    /\ segs = <<>>
    /\ exhausted = FALSE
    /\ ret = None
    /\ out = <<>>
    /\ raw = <<>>
    /\ src = <<>>

\* The caller's side of one call of next(): record what came back.
Returned(r, reads) ==
    /\ conv' = r.st
    /\ ret' = r.ev
    /\ IF r.ev = None
       THEN UNCHANGED <<out, raw, src>>
       ELSE /\ out' = Append(out, r.ev)
            /\ raw' = Append(raw, r.raw)
            /\ src' = Append(src, reads)

\* next() with an event waiting in the deferred slot: the source is not read.
NextDeferred ==
    /\ conv.deferred # None
    /\ Returned(TakeDeferred(conv), Reads)
    /\ UNCHANGED <<transform, segs, exhausted, mergeVars, meshVars, treeVars, tessVars, originVars>>

\* next() where self.iter.next() hands out a segment.
NextSegment ==
    /\ conv.deferred = None
    /\ ~exhausted
    /\ Len(segs) < MaxSegs
    /\ \E s \in Segments :
          /\ segs' = Append(segs, s)
          /\ Returned(MatchSegment(conv, s), Reads + 1)
    /\ UNCHANGED <<transform, exhausted, mergeVars, meshVars, treeVars, tessVars, originVars>>

\* next() where self.iter.next() returns None: now, and on every later call.
NextSourceEnd ==
    /\ conv.deferred = None
    /\ exhausted' = TRUE
    /\ Returned(MatchSegment(conv, None), Len(segs) + 1)
    /\ UNCHANGED <<transform, segs, mergeVars, meshVars, treeVars, tessVars, originVars>>

NextNorm == NextDeferred \/ NextSegment \/ NextSourceEnd

Spec == InitNorm /\ [][NextNorm]_vars

-----------------------------------------------------------------------------
(* Merging: any sequence of extend and extend_one calls on an empty target. *)

InitMerge ==
    /\ IdleNorm /\ IdleMesh /\ IdleTree /\ IdleTess /\ IdleOrigin
    /\ target = EmptyBuffers
    /\ hist = <<>>
    /\ calls = <<>>
    /\ pre = EmptyBuffers
    /\ args = <<>>

CallExtendOne ==
    /\ Len(calls) < MaxCalls
    /\ Len(hist) < MaxMerged
    /\ \E item \in SourceBuffers :
          /\ target' = ExtendOne(target, item)
          /\ hist' = Append(hist, item)
          /\ calls' = Append(calls, [op |-> "extend_one", n |-> 1])
          /\ pre' = target
          /\ args' = <<item>>
    /\ UNCHANGED <<normVars, meshVars, treeVars, tessVars, originVars>>

CallExtend ==
    /\ Len(calls) < MaxCalls
    /\ \E iter \in Batches(0, MaxBatch) :
          /\ Len(hist) + Len(iter) <= MaxMerged
          /\ target' = Extend(target, iter)
          /\ hist' = hist \o iter
          /\ calls' = Append(calls, [op |-> "extend", n |-> Len(iter)])
          /\ pre' = target
          /\ args' = iter
    /\ UNCHANGED <<normVars, meshVars, treeVars, tessVars, originVars>>

NextMerge == CallExtendOne \/ CallExtend

SpecMerge == InitMerge /\ [][NextMerge]_vars

-----------------------------------------------------------------------------
(* Svg::tessellate's last step: the merged buffer, the size and the         *)
(* relative offset of the Origin go to convert.                             *)

InitMesh ==
    /\ IdleNorm /\ IdleMerge /\ IdleTree /\ IdleTess /\ IdleOrigin
    /\ buffer \in {Extend(EmptyBuffers, iter) : iter \in Batches(0, 2)}
    /\ size \in Sizes
    /\ origin \in Origins
    /\ mesh = None

\* svg.tessellate(origin.get_relative_offset()): (buffer, self.size, origin).convert()
Tessellate ==
    /\ mesh = None
    /\ mesh' = ConvertMesh(buffer, size, GetRelativeOffset(origin))
    /\ UNCHANGED <<normVars, mergeVars, treeVars, tessVars, originVars, buffer, size, origin>>

NextMesh == Tessellate

SpecMesh == InitMesh /\ [][NextMesh]_vars

-----------------------------------------------------------------------------
(* Svg::from_tree: the loop over tree.root.descendants(), a node a step.   *)

InitTree ==
    /\ IdleNorm /\ IdleMerge /\ IdleMesh /\ IdleTess /\ IdleOrigin
    /\ visited = <<>>
    /\ descriptors = <<>>
    /\ desc_node = <<>>
    /\ svg = None

\* The loop body on a Path node.
VisitPath ==
    /\ svg = None
    /\ Len(visited) < MaxNodes
    /\ \E path \in PathNodes :
          LET added == PathDescriptors(path)
          IN  /\ visited' = Append(visited, path)
              /\ descriptors' = descriptors \o added
              /\ desc_node' = desc_node \o [k \in 1..Len(added) |-> Len(visited) + 1]
    /\ UNCHANGED <<normVars, mergeVars, meshVars, tessVars, originVars, svg>>

\* The loop body on any other node: the `_ => {}` arm.
VisitOther ==
    /\ svg = None
    /\ Len(visited) < MaxNodes
    /\ visited' = Append(visited, GroupNode)
    /\ UNCHANGED <<normVars, mergeVars, meshVars, tessVars, originVars, descriptors, desc_node, svg>>

\* descendants() is at its end: from_tree returns the Svg.
ReturnSvg ==
    /\ svg = None
    /\ svg' = [paths |-> descriptors]
    /\ UNCHANGED <<normVars, mergeVars, meshVars, tessVars, originVars, visited, descriptors, desc_node>>

NextTree == VisitPath \/ VisitOther \/ ReturnSvg

SpecTree == InitTree /\ [][NextTree]_vars

-----------------------------------------------------------------------------
(* Svg::tessellate: generate_buffer tessellates the descriptors one by one  *)
(* and merges what they yield, then convert makes the Mesh.                 *)

\* What a tessellator hands back for one descriptor: the buffer it built, or
\* a TessellationError.
TessOk(b) == [ok |-> TRUE, buffer |-> b]
TessErr == [ok |-> FALSE, buffer |-> EmptyBuffers]
TessellatorOutputs == {EmptyBuffers, TriangleBuffers, SquareBuffers}
TessResults == {TessOk(b) : b \in TessellatorOutputs} \cup {TessErr}

\* generate_buffer on one descriptor: a failed descriptor is skipped, the
\* buffer of any other is merged into the buffers built so far.
GenerateBufferStep(buffers, result) ==
    IF result.ok THEN ExtendOne(buffers, result.buffer) ELSE buffers

\* The Vec2 values a caller passes as origin.
OriginVecs == {GetRelativeOffset(o) : o \in Origins}

InitTess ==
    /\ IdleNorm /\ IdleMerge /\ IdleMesh /\ IdleTree /\ IdleOrigin
    /\ tess_results = <<>>
    /\ tess_buffer = EmptyBuffers
    /\ tess_size \in Sizes
    /\ tess_mesh = None

\* The tessellator succeeds on the next descriptor.
TessellateDescriptor ==
    /\ tess_mesh = None
    /\ Len(tess_results) < MaxPaths
    /\ \E b \in TessellatorOutputs :
          /\ tess_results' = Append(tess_results, TessOk(b))
          /\ tess_buffer' = GenerateBufferStep(tess_buffer, TessOk(b))
    /\ UNCHANGED <<normVars, mergeVars, meshVars, treeVars, originVars,
                   tess_size, tess_mesh>>

\* The tessellator fails on the next descriptor.
SkipDescriptor ==
    /\ tess_mesh = None
    /\ Len(tess_results) < MaxPaths
    /\ tess_results' = Append(tess_results, TessErr)
    /\ tess_buffer' = GenerateBufferStep(tess_buffer, TessErr)
    /\ UNCHANGED <<normVars, mergeVars, meshVars, treeVars, originVars,
                   tess_size, tess_mesh>>

\* The descriptors are at their end: (buffer, self.size, origin).convert().
ReturnMesh ==
    /\ tess_mesh = None
    /\ \E v \in OriginVecs :
          tess_mesh' = ConvertMesh(tess_buffer, tess_size, v)
    /\ UNCHANGED <<normVars, mergeVars, meshVars, treeVars, originVars,
                   tess_results, tess_buffer, tess_size>>

NextTess == TessellateDescriptor \/ SkipDescriptor \/ ReturnMesh

SpecTess == InitTess /\ [][NextTess]_vars

-----------------------------------------------------------------------------
(* The Origin systems: add_origin_state attaches an OriginState to a new    *)
(* Svg entity, apply_origin_change_2d and _3d recompute the mesh of every   *)
(* entity whose Origin is not the one its OriginState recorded.             *)

\* The Origin values the application gives its entities.
AppOrigins == {Named("TopLeft"), Custom(1, 0)}

\* The mesh component of an entity: Mesh2dHandle or Handle<Mesh>.
Dims == {"2d", "3d"}

\* OriginState { previous }.
OriginState(previous) == [t |-> "OriginState", previous |-> previous]

\* A spawned Svg entity: Handle<Svg>, a mesh component holding the default
\* handle, an Origin and no OriginState.
NewEntity(dim, o) ==
    [dim |-> dim, svg |-> "svg", mesh |-> 0, origin |-> o, state |-> None]

\* The Svg behind the handle: its size and the buffer its paths tessellate to.
SvgAsset == [size |-> <<100, 50>>, buffer |-> TriangleBuffers]

\* svg.tessellate(origin)
SvgTessellate(asset, v) == ConvertMesh(asset.buffer, asset.size, v)

\* The loop body with prev.previous written outside the `if let Some(svg)`.
ApplyOriginChangeEager(ent, assets, store) ==
    IF ent.state.previous # ent.origin
    THEN IF ent.svg \in assets
         THEN LET added == Append(store, SvgTessellate(SvgAsset,
                                      GetRelativeOffset(ent.origin)))
              IN  [ent |-> [ent EXCEPT !.mesh = Len(added),
                                       !.state = OriginState(ent.origin)],
                   meshes |-> added]
         ELSE [ent |-> [ent EXCEPT !.state = OriginState(ent.origin)],
               meshes |-> store]
    ELSE [ent |-> ent, meshes |-> store]

\* The loop body without the comparison of prev.previous and origin.
ApplyOriginChangeAlways(ent, assets, store) ==
    IF ent.svg \in assets
    THEN LET added == Append(store, SvgTessellate(SvgAsset,
                                 GetRelativeOffset(ent.origin)))
         IN  [ent |-> [ent EXCEPT !.mesh = Len(added),
                                  !.state = OriginState(ent.origin)],
              meshes |-> added]
    ELSE [ent |-> ent, meshes |-> store]

\* The loop body of apply_origin_change_2d and apply_origin_change_3d on one
\* entity of the query.
ApplyOriginChangeOne(ent, assets, store) ==
    IF ent.state.previous # ent.origin
    THEN IF ent.svg \in assets
         THEN LET new_mesh == SvgTessellate(SvgAsset,
                                  GetRelativeOffset(ent.origin))
                  added == Append(store, new_mesh)
              IN  [ent |-> [ent EXCEPT !.mesh = Len(added),
                                       !.state = OriginState(ent.origin)],
                   meshes |-> added]
         ELSE [ent |-> ent, meshes |-> store]
    ELSE [ent |-> ent, meshes |-> store]

\* The entities the query of the system for dim yields.
InQuery(ent, dim) == ent.dim = dim /\ ent.state # None

\* The loop over options.iter_mut(), from the k-th entity on.
RECURSIVE ApplyOriginChange(_, _, _, _, _)
ApplyOriginChange(ents, assets, store, dim, k) ==
    IF k > Len(ents)
    THEN [entities |-> ents, meshes |-> store]
    ELSE IF InQuery(ents[k], dim)
         THEN LET r == ApplyOriginChangeOne(ents[k], assets, store)
              IN  ApplyOriginChange([ents EXCEPT ![k] = r.ent], assets,
                                    r.meshes, dim, k + 1)
         ELSE ApplyOriginChange(ents, assets, store, dim, k + 1)

\* What a cycle did with an entity of its query.
OutcomeOf(ent, assets, last) ==
    IF ent.state.previous = ent.origin THEN "same"
    ELSE IF ent.svg \notin assets THEN "not_ready"
    ELSE IF last = "not_ready" THEN "retried"
    ELSE "recomputed"

InitOrigin ==
    /\ IdleNorm /\ IdleMerge /\ IdleMesh /\ IdleTree /\ IdleTess
    /\ entities = <<>>
    /\ svgs = {}
    /\ meshes = <<>>
    /\ changes = 0
    /\ outcome = <<>>

notOrigin == <<normVars, mergeVars, meshVars, treeVars, tessVars>>

\* The application spawns an Svg entity.
SpawnSvg ==
    /\ Len(entities) < MaxEntities
    /\ \E dim \in Dims, o \in AppOrigins :
          entities' = Append(entities, NewEntity(dim, o))
    /\ outcome' = Append(outcome, "none")
    /\ UNCHANGED <<notOrigin, svgs, meshes, changes>>

\* The application sets the Origin of an entity.
SetOrigin ==
    /\ changes < MaxChanges
    /\ \E e \in DOMAIN entities, o \in AppOrigins :
          /\ o # entities[e].origin
          /\ entities' = [entities EXCEPT ![e].origin = o]
          /\ outcome' = [outcome EXCEPT ![e] = "none"]
    /\ changes' = changes + 1
    /\ UNCHANGED <<notOrigin, svgs, meshes>>

\* The asset server finishes loading the Svg.
LoadSvg ==
    /\ "svg" \notin svgs
    /\ svgs' = svgs \cup {"svg"}
    /\ UNCHANGED <<notOrigin, entities, meshes, changes, outcome>>

\* The Svg asset is removed.
UnloadSvg ==
    /\ "svg" \in svgs
    /\ svgs' = svgs \ {"svg"}
    /\ UNCHANGED <<notOrigin, entities, meshes, changes, outcome>>

\* add_origin_state, with its commands applied.
AddOriginState ==
    /\ \E e \in DOMAIN entities : entities[e].state = None
    /\ entities' = [e \in DOMAIN entities |->
                      IF entities[e].state = None
                      THEN [entities[e] EXCEPT
                                !.state = OriginState(Named("TopLeft"))]
                      ELSE entities[e]]
    /\ UNCHANGED <<notOrigin, svgs, meshes, changes, outcome>>

\* One run of the system for dim.
RunApplyOriginChange(dim) ==
    /\ \E e \in DOMAIN entities : InQuery(entities[e], dim)
    /\ LET r == ApplyOriginChange(entities, svgs, meshes, dim, 1)
       IN  /\ entities' = r.entities
           /\ meshes' = r.meshes
    /\ outcome' = [e \in DOMAIN outcome |->
                     IF InQuery(entities[e], dim)
                     THEN OutcomeOf(entities[e], svgs, outcome[e])
                     ELSE outcome[e]]
    /\ UNCHANGED <<notOrigin, svgs, changes>>

apply_origin_change_2d == RunApplyOriginChange("2d")

apply_origin_change_3d == RunApplyOriginChange("3d")

NextOrigin ==
    \/ SpawnSvg
    \/ SetOrigin
    \/ LoadSvg
    \/ UnloadSvg
    \/ AddOriginState
    \/ apply_origin_change_2d
    \/ apply_origin_change_3d

SpecOrigin == InitOrigin /\ [][NextOrigin]_vars

\* The consumer has drained the iterator: the source is exhausted and next()
\* has returned None.
Finished == exhausted /\ ret = None

-----------------------------------------------------------------------------
(* Properties of the event sequence returned by PathConvIter. *)

EndIndices == {i \in DOMAIN out : out[i].t = "End"}
BeginIndices == {i \in DOMAIN out : out[i].t = "Begin"}
SegsOfKind(kind) == {i \in DOMAIN segs : segs[i].t = kind}
MinOf(S) == CHOOSE m \in S : \A n \in S : m <= n

\* C1: every Begin the iterator returns is followed by exactly one End
\* before the next Begin, or, for the last Begin, before the stream ends.
C1_BeginFollowedByOneEnd ==
    \A i \in BeginIndices :
        LET later == {j \in BeginIndices : j > i}
        IN  IF later # {}
            THEN Cardinality({k \in EndIndices : i < k /\ k < MinOf(later)}) = 1
            ELSE Finished => Cardinality({k \in EndIndices : i < k}) = 1

\* C2: a stream without ClosePath yields exactly one End per MoveTo, each
\* with close = false, each directly before a Begin or last in the stream.
C2_OneOpenEndPerSubpath ==
    (Finished /\ SegsOfKind("ClosePath") = {}) =>
        /\ Cardinality(EndIndices) = Cardinality(SegsOfKind("MoveTo"))
        /\ \A i \in EndIndices :
              /\ out[i].close = FALSE
              /\ i = Len(out) \/ out[i + 1].t = "Begin"

\* C3: when the last segment of the stream is ClosePath, reading it returns
\* one End with close = true and first = last, that End is the last event
\* of the stream (the end of the source adds none), and the stream holds
\* exactly one End with close = true per ClosePath.
C3_ClosedStreamEndsWithOneClose ==
    (Finished /\ segs # <<>> /\ segs[Len(segs)].t = "ClosePath") =>
        /\ out # <<>>
        /\ out[Len(out)].t = "End"
        /\ out[Len(out)].close = TRUE
        /\ out[Len(out)].first = out[Len(out)].last
        /\ {i \in DOMAIN out : src[i] >= Len(segs)} = {Len(out)}
        /\ Cardinality({i \in EndIndices : out[i].close}) =
               Cardinality(SegsOfKind("ClosePath"))

\* A drained stream MoveTo, LineTo, ClosePath: Begin, Line, End{close}.
C3_Witness ==
    /\ Finished
    /\ Len(segs) = 3
    /\ segs[1].t = "MoveTo" /\ segs[2].t = "LineTo" /\ segs[3].t = "ClosePath"
    /\ segs[2].x # segs[1].x
    /\ Len(out) = 3
    /\ out[3].t = "End" /\ out[3].close

\* C4: every returned event is the constructed event with X negated iff the
\* transform's a is negative and Y negated iff its d is negative.
C4_EveryEventSignCorrected ==
    \A i \in DOMAIN out :
        out[i] = Transformed(raw[i], <<IF transform[1] < 0 THEN -1 ELSE 1,
                                       IF transform[2] < 0 THEN -1 ELSE 1>>)

-----------------------------------------------------------------------------
(* Properties of the merged buffer. *)

\* The vertices of the buffers of iter before the k-th.
RECURSIVE VerticesBefore(_, _)
VerticesBefore(iter, k) ==
    IF k <= 1 THEN 0 ELSE VerticesBefore(iter, k - 1) + Len(iter[k - 1].vertices)

\* The indices of the buffers of iter before the k-th.
RECURSIVE IndicesBefore(_, _)
IndicesBefore(iter, k) ==
    IF k <= 1 THEN 0 ELSE IndicesBefore(iter, k - 1) + Len(iter[k - 1].indices)

LastCallIs(op) == calls # <<>> /\ calls[Len(calls)].op = op

\* C5: after extend, the target holds its old vertices, then every source's
\* vertices in order; its old indices, then every source's indices in order,
\* each raised by the old vertex count plus the vertex counts of the
\* sources before it; nothing more.
C5_ExtendConcatenatesAndRebases ==
    LastCallIs("extend") =>
        LET v0 == Len(pre.vertices)
            i0 == Len(pre.indices)
            n == Len(args)
        IN  /\ Len(target.vertices) = v0 + VerticesBefore(args, n + 1)
            /\ Len(target.indices) = i0 + IndicesBefore(args, n + 1)
            /\ \A i \in 1..v0 : target.vertices[i] = pre.vertices[i]
            /\ \A i \in 1..i0 : target.indices[i] = pre.indices[i]
            /\ \A k \in 1..n :
                  /\ \A i \in 1..Len(args[k].vertices) :
                        target.vertices[v0 + VerticesBefore(args, k) + i] =
                            args[k].vertices[i]
                  /\ \A i \in 1..Len(args[k].indices) :
                        target.indices[i0 + IndicesBefore(args, k) + i] =
                            args[k].indices[i] + v0 + VerticesBefore(args, k)

\* The triangle and the square merged by one extend into a target that
\* already holds a triangle: the square's indices are raised by 3 + 3.
C5_Witness ==
    /\ LastCallIs("extend")
    /\ pre = TriangleBuffers
    /\ args = <<TriangleBuffers, SquareBuffers>>
    /\ target.indices = <<0, 1, 2, 3, 4, 5, 6, 7, 8, 6, 8, 9>>
    /\ Len(target.vertices) = 10

WellFormed(b) ==
    /\ Len(b.indices) % 3 = 0
    /\ \A i \in DOMAIN b.indices : b.indices[i] < Len(b.vertices)

\* C6: starting from an empty target, if every buffer merged so far has its
\* indices in bounds and in whole triangles, so has the target.
C6_MergeKeepsIndicesInBounds ==
    (\A k \in DOMAIN hist : WellFormed(hist[k])) => WellFormed(target)

\* Both methods used, three well-formed buffers with triangles merged.
C6_Witness ==
    /\ Len(hist) = 3
    /\ \A k \in DOMAIN hist : WellFormed(hist[k]) /\ hist[k].indices # <<>>
    /\ \E c \in DOMAIN calls : calls[c].op = "extend_one"
    /\ \E c \in DOMAIN calls : calls[c].op = "extend" /\ calls[c].n > 0
    /\ WellFormed(target)
    /\ Len(target.indices) >= 9

\* extend_one applied to the buffers of iter one after another.
RECURSIVE ExtendOneByOne(_, _)
ExtendOneByOne(self, iter) ==
    IF iter = <<>> THEN self ELSE ExtendOneByOne(ExtendOne(self, Head(iter)), Tail(iter))

\* C7: however the buffers were grouped into calls of extend and extend_one,
\* the target equals what one extend of all of them gives, and what
\* extend_one applied to them one after another gives.
C7_MergeIsAssociative ==
    /\ target = Extend(EmptyBuffers, hist)
    /\ target = ExtendOneByOne(EmptyBuffers, hist)

\* [A, B] merged by one extend, then [C] by another.
C7_Witness ==
    /\ Len(calls) = 2
    /\ calls[1] = [op |-> "extend", n |-> 2]
    /\ calls[2] = [op |-> "extend", n |-> 1]
    /\ hist = <<TriangleBuffers, SquareBuffers, TriangleBuffers>>
    /\ target.indices = <<0, 1, 2, 3, 4, 5, 3, 5, 6, 7, 8, 9>>

-----------------------------------------------------------------------------
(* Properties of the Mesh. *)

\* C8: every vertex is moved by (-width * rx, height * ry), (rx, ry) being
\* (fx, fy) for Custom(fx, fy) and (0, 0) for every named Origin; Custom(1, 0)
\* on a 100 x 50 image moves every vertex by (-100, 0).
C8_VertexOffsetFromOrigin ==
    mesh # None =>
        LET r == IF origin.kind = "Custom" THEN origin.coord ELSE <<0, 0>>
            moved(i) == <<mesh.positions[i][1] - buffer.vertices[i].position[1],
                          mesh.positions[i][2] - buffer.vertices[i].position[2]>>
        IN  \A i \in DOMAIN mesh.positions :
                /\ moved(i) = <<(0 - size[1]) * r[1], size[2] * r[2]>>
                /\ origin.kind # "Custom" => moved(i) = <<0, 0>>
                /\ (origin = Custom(1, 0) /\ size = <<100, 50>>) =>
                       moved(i) = <<-100, 0>>

\* Custom((1, 0)) on a 100 x 50 image with vertices in the buffer.
C8_Witness ==
    /\ mesh # None
    /\ origin = Custom(1, 0)
    /\ size = <<100, 50>>
    /\ buffer = Extend(EmptyBuffers, <<TriangleBuffers, SquareBuffers>>)
    /\ mesh.positions[1] = <<-100, 0, 0>>
    /\ mesh.positions[7] = <<-99, 3, 5>>

\* C9: the Mesh has the buffer's vertices in number and order, each with its
\* Z and its color, the buffer's index sequence, and triangle-list topology.
C9_MeshKeepsAllButXY ==
    mesh # None =>
        /\ Len(mesh.positions) = Len(buffer.vertices)
        /\ Len(mesh.colors) = Len(buffer.vertices)
        /\ \A i \in DOMAIN buffer.vertices :
              /\ mesh.positions[i][3] = buffer.vertices[i].position[3]
              /\ mesh.colors[i] = buffer.vertices[i].color
        /\ mesh.indices = buffer.indices
        /\ mesh.topology = "TriangleList"

\* A buffer of two colors and two Z values, moved on both axes.
C9_Witness ==
    /\ mesh # None
    /\ origin = Custom(2, -1)
    /\ size = <<7, 3>>
    /\ buffer = Extend(EmptyBuffers, <<SquareBuffers, TriangleBuffers>>)
    /\ mesh.positions[1] = <<-13, -2, 5>>
    /\ mesh.colors[5] = Red

-----------------------------------------------------------------------------
(* Properties of the descriptors from_tree returns. *)

DescriptorsOf(i, kind) ==
    {j \in DOMAIN svg.paths : desc_node[j] = i /\ svg.paths[j].draw_type.t = kind}

\* C10: each Path node, in traversal order, has one Fill descriptor iff it has
\* a fill and one Stroke descriptor iff it has a stroke, Fill before Stroke;
\* other nodes and paths with neither have none; the descriptors of an
\* earlier path precede those of a later one.
C10_DescriptorsFollowTraversal ==
    svg # None =>
        /\ \A i \in DOMAIN visited :
              IF visited[i].kind = "Path"
              THEN /\ Cardinality(DescriptorsOf(i, "Fill")) =
                          (IF visited[i].fill # None THEN 1 ELSE 0)
                   /\ Cardinality(DescriptorsOf(i, "Stroke")) =
                          (IF visited[i].stroke # None THEN 1 ELSE 0)
              ELSE DescriptorsOf(i, "Fill") \cup DescriptorsOf(i, "Stroke") = {}
        /\ \A j \in DOMAIN svg.paths :
              /\ desc_node[j] \in DOMAIN visited
              /\ svg.paths[j].draw_type.t \in {"Fill", "Stroke"}
        /\ \A j, k \in DOMAIN svg.paths :
              j < k =>
                  \/ desc_node[j] < desc_node[k]
                  \/ /\ desc_node[j] = desc_node[k]
                     /\ svg.paths[j].draw_type.t = "Fill"
                     /\ svg.paths[k].draw_type.t = "Stroke"

\* A path with fill and stroke, a group, then a path with a stroke only.
C10_Witness ==
    /\ svg # None
    /\ Len(visited) = 3
    /\ visited[1].kind = "Path" /\ visited[1].fill # None /\ visited[1].stroke # None
    /\ visited[2].kind = "Group"
    /\ visited[3].kind = "Path" /\ visited[3].fill = None /\ visited[3].stroke # None
    /\ desc_node = <<1, 1, 3>>
    /\ svg.paths[1].draw_type.t = "Fill"
    /\ svg.paths[2].draw_type.t = "Stroke"
    /\ svg.paths[3].draw_type.t = "Stroke"

-----------------------------------------------------------------------------
(* Properties of single calls of PathConvIter::next. *)

\* The step reads one more segment from the source, of this kind.
ReadsSegment(kind) ==
    /\ Len(segs') = Len(segs) + 1
    /\ segs'[Len(segs')].t = kind

\* The point a segment with coordinates names.
SegPoint(s) == <<s.x, s.y>>

\* C13: a MoveTo read while needs_end holds returns End{close = false} with
\* the previous subpath's last and first point and puts Begin at the new
\* point in the deferred slot; the next call returns that Begin and reads
\* nothing from the source.  A MoveTo read otherwise returns Begin at the new
\* point, which becomes self.first.  (Points are those of the events as
\* constructed.)
C13_MoveToEndsThenBegins ==
    [][/\ ReadsSegment("MoveTo") =>
              LET p == SegPoint(segs'[Len(segs')])
              IN  IF conv.needs_end
                  THEN /\ raw' = Append(raw, End(conv.prev, conv.first, FALSE))
                       /\ ret' = Transformed(End(conv.prev, conv.first, FALSE),
                                             conv.scale)
                       /\ conv'.deferred = Begin(p)
                  ELSE /\ raw' = Append(raw, Begin(p))
                       /\ ret'.t = "Begin"
                       /\ conv'.first = p
                       /\ conv'.deferred = None
       /\ conv.deferred # None =>
              /\ segs # <<>>
              /\ segs[Len(segs)].t = "MoveTo"
              /\ conv.deferred = Begin(SegPoint(segs[Len(segs)]))
              /\ ret' = conv.deferred
              /\ out' = Append(out, conv.deferred)
              /\ segs' = segs
              /\ exhausted' = exhausted
              /\ conv'.deferred = None
      ]_vars

\* One read of a MoveTo gave two events: the End of a subpath that started
\* and ended elsewhere, then the Begin at the new point.
C13_Witness ==
    \E i \in DOMAIN out :
        /\ i < Len(out)
        /\ src[i] = src[i + 1]
        /\ segs[src[i]].t = "MoveTo"
        /\ raw[i].t = "End" /\ raw[i].close = FALSE
        /\ raw[i + 1] = Begin(SegPoint(segs[src[i]]))
        /\ raw[i].last # raw[i + 1].at
        /\ raw[i].first # raw[i + 1].at
        /\ raw[i].first # raw[i].last

\* C14 as stated, on streams that start with MoveTo: a ClosePath read after
\* a segment that reached a point returns End{close = true} whose last is
\* that point and whose first is the subpath's first point; afterwards
\* prev = first and needs_end is false.
C14_CloseLastIsPreviousPoint ==
    [][(/\ ReadsSegment("ClosePath")
        /\ segs # <<>>
        /\ segs[1].t = "MoveTo"
        /\ segs[Len(segs)].t \in {"MoveTo", "LineTo", "CurveTo"}) =>
           /\ raw' = Append(raw, End(SegPoint(segs[Len(segs)]), conv.first, TRUE))
           /\ conv'.prev = conv'.first
           /\ ~conv'.needs_end
      ]_vars

\* C14, amended: a ClosePath read returns End{close = true} whose last and
\* first are both the subpath's first point; afterwards prev = first, first
\* is unchanged and needs_end is false.
C14_CloseLastIsFirstPoint ==
    [][ReadsSegment("ClosePath") =>
           /\ raw' = Append(raw, End(conv.first, conv.first, TRUE))
           /\ ret' = Transformed(End(conv.first, conv.first, TRUE), conv.scale)
           /\ conv'.prev = conv.first
           /\ conv'.first = conv.first
           /\ ~conv'.needs_end
      ]_vars

\* MoveTo, LineTo to another point, ClosePath: the End's last is the first
\* point, not the point the line reached.
C14_Witness ==
    /\ Len(segs) = 3 /\ Len(raw) = 3
    /\ segs[1].t = "MoveTo" /\ segs[2].t = "LineTo" /\ segs[3].t = "ClosePath"
    /\ raw[3].t = "End" /\ raw[3].close
    /\ raw[3].last = SegPoint(segs[1])
    /\ raw[3].last # raw[2].to
    /\ conv.prev = conv.first
    /\ ~conv.needs_end

\* C15: the source's end returns one End{close = false} with prev and first
\* iff needs_end holds, and clears it; the call after returns None, and so
\* does every later one; n segments give at most 2n + 1 events.
C15_TerminatesWithOneFinalEnd ==
    /\ [](/\ Len(out) <= 2 * Len(segs) + 1
          /\ Cardinality({i \in DOMAIN out : src[i] > Len(segs)}) <= 1
          /\ (exhausted /\ ret # None) => (~conv.needs_end /\ conv.deferred = None))
    /\ [][/\ (~exhausted /\ exhausted') =>
                 IF conv.needs_end
                 THEN /\ raw' = Append(raw, End(conv.prev, conv.first, FALSE))
                      /\ ret' = Transformed(End(conv.prev, conv.first, FALSE),
                                            conv.scale)
                      /\ src' = Append(src, Len(segs) + 1)
                      /\ ~conv'.needs_end
                 ELSE ret' = None /\ out' = out
          /\ exhausted => (ret' = None /\ out' = out /\ segs' = segs /\ exhausted')
         ]_vars

\* A drained stream of three segments or more whose last event is the
\* End{close = false} returned at the source's end.
C15_Witness ==
    /\ Finished
    /\ Len(segs) >= 3
    /\ out # <<>>
    /\ src[Len(out)] = Len(segs) + 1
    /\ out[Len(out)].t = "End" /\ out[Len(out)].close = FALSE
    /\ raw[Len(out)].last # raw[Len(out)].first

\* C17: the from of every Line and Cubic is where the event before it ended:
\* the at of a Begin, the to of a Line or Cubic.
C17_FromIsWherePreviousEnded ==
    \A i \in DOMAIN out :
        (i > 1 /\ out[i].t \in {"Line", "Cubic"}) =>
            /\ out[i - 1].t = "Begin" => out[i].from = out[i - 1].at
            /\ out[i - 1].t \in {"Line", "Cubic"} => out[i].from = out[i - 1].to

\* A subpath is open before event i: a Begin precedes it with no End between.
OpenBefore(i) ==
    \E j \in BeginIndices : j < i /\ \A k \in EndIndices : ~(j < k /\ k < i)

\* C18: a Line, Cubic or End is returned only while a subpath is open.
C18_DrawingOnlyInOpenSubpath ==
    \A i \in DOMAIN out : out[i].t \in {"Line", "Cubic", "End"} => OpenBefore(i)

-----------------------------------------------------------------------------
(* Properties of Svg::tessellate when a descriptor fails to tessellate. *)

\* The buffers of the descriptors that tessellated, in descriptor order.
OkBuffers ==
    LET oks == SelectSeq(tess_results, LAMBDA r : r.ok)
    IN  [k \in 1..Len(oks) |-> oks[k].buffer]

FailedDescriptors == {k \in DOMAIN tess_results : ~tess_results[k].ok}

\* C12: a descriptor whose tessellation fails does not abort the build: the
\* merged buffer holds exactly the vertices and indices of the descriptors
\* that tessellated, in descriptor order and nothing of the failed ones, and
\* tessellate can still return, and returns, a Mesh of that buffer.
C12_FailedDescriptorIsSkipped ==
    LET n == Len(OkBuffers)
    IN  /\ Len(tess_buffer.vertices) = VerticesBefore(OkBuffers, n + 1)
        /\ Len(tess_buffer.indices) = IndicesBefore(OkBuffers, n + 1)
        /\ \A k \in 1..n :
              /\ \A i \in 1..Len(OkBuffers[k].vertices) :
                    tess_buffer.vertices[VerticesBefore(OkBuffers, k) + i] =
                        OkBuffers[k].vertices[i]
              /\ \A i \in 1..Len(OkBuffers[k].indices) :
                    tess_buffer.indices[IndicesBefore(OkBuffers, k) + i] =
                        OkBuffers[k].indices[i] + VerticesBefore(OkBuffers, k)
        /\ tess_mesh = None => ENABLED ReturnMesh
        /\ tess_mesh # None =>
              /\ tess_mesh.topology = "TriangleList"
              /\ tess_mesh.indices = tess_buffer.indices
              /\ Len(tess_mesh.positions) = Len(tess_buffer.vertices)
              /\ Len(tess_mesh.colors) = Len(tess_buffer.vertices)
              /\ \A i \in DOMAIN tess_buffer.vertices :
                    /\ tess_mesh.colors[i] = tess_buffer.vertices[i].color
                    /\ tess_mesh.positions[i][3] =
                           tess_buffer.vertices[i].position[3]

\* The second of three descriptors failed: the Mesh returned holds the
\* triangle and the square, the square's indices raised by three.
C12_Witness ==
    /\ tess_results = <<TessOk(TriangleBuffers), TessErr, TessOk(SquareBuffers)>>
    /\ tess_mesh # None
    /\ Len(tess_mesh.positions) = 7
    /\ tess_mesh.indices = <<0, 1, 2, 3, 4, 5, 3, 5, 6>>

-----------------------------------------------------------------------------
(* Properties of the Origin systems. *)

\* A step of the system whose query yields entity e.
CycleOn(e) ==
    /\ e \in DOMAIN entities
    /\ entities[e].state # None
    /\ \/ entities[e].dim = "2d" /\ apply_origin_change_2d
       \/ entities[e].dim = "3d" /\ apply_origin_change_3d

Differs(ent) == ent.state.previous # ent.origin

\* The Mesh the systems compute for an entity.
MeshFor(ent) == SvgTessellate(SvgAsset, GetRelativeOffset(ent.origin))

\* C11: a cycle that finds an entity's Origin different from the recorded
\* previous Origin while its Svg asset is absent leaves the entity's mesh
\* handle and its OriginState as they were, so the difference is still
\* there for the next cycle; a cycle that finds the difference with the
\* asset present gives the entity the handle of a Mesh added in that cycle,
\* tessellated for the current Origin, and records the current Origin.
C11_AbsentAssetIsRetried ==
    [][\A e \in DOMAIN entities :
          (CycleOn(e) /\ Differs(entities[e])) =>
              IF entities[e].svg \in svgs
              THEN /\ entities'[e].mesh \in (Len(meshes) + 1)..Len(meshes')
                   /\ meshes'[entities'[e].mesh] = MeshFor(entities[e])
                   /\ entities'[e].state.previous = entities'[e].origin
                   /\ entities'[e].origin = entities[e].origin
              ELSE /\ entities'[e] = entities[e]
                   /\ Differs(entities'[e])
                   /\ meshes' = meshes]_vars

\* An entity was skipped while the asset was absent and recomputed by a
\* later cycle, its Origin unchanged in between.
C11_Witness ==
    \E e \in DOMAIN entities :
        /\ outcome[e] = "retried"
        /\ entities[e].origin = Custom(1, 0)
        /\ entities[e].state = OriginState(Custom(1, 0))
        /\ entities[e].mesh > 0
        /\ meshes[entities[e].mesh] = MeshFor(entities[e])

\* The entities of the query of a cycle whose mesh the cycle recomputes.
Recomputed(dim) ==
    {e \in DOMAIN entities :
        /\ InQuery(entities[e], dim)
        /\ Differs(entities[e])
        /\ entities[e].svg \in svgs}

\* C16: the OriginState attached to an entity records TopLeft; a cycle gives
\* an entity a new mesh handle only if its Origin differs from the recorded
\* one, and adds one Mesh for each such entity whose asset is present and
\* no other; after a cycle with the asset present the recorded Origin is
\* the current one; a cycle on an entity whose Origin is the recorded one
\* leaves its mesh handle and its OriginState unchanged.
C16_RecomputeOnlyOnChange ==
    /\ [][\A e \in DOMAIN entities :
             (entities[e].state = None /\ entities'[e].state # None) =>
                 entities'[e].state = OriginState(Named("TopLeft"))]_vars
    /\ [][\A e \in DOMAIN entities :
             CycleOn(e) =>
                 /\ entities'[e].mesh # entities[e].mesh => Differs(entities[e])
                 /\ entities[e].svg \in svgs => ~Differs(entities'[e])
                 /\ ~Differs(entities[e]) => entities'[e] = entities[e]
                 /\ Len(meshes') - Len(meshes) =
                        Cardinality(Recomputed(entities[e].dim))]_vars

\* An entity was recomputed for Custom((1, 0)), and the cycle after that
\* found nothing to do with it.
C16_Witness ==
    \E e \in DOMAIN entities :
        /\ outcome[e] = "same"
        /\ entities[e].origin = Custom(1, 0)
        /\ entities[e].state = OriginState(Custom(1, 0))
        /\ entities[e].mesh > 0
        /\ "svg" \in svgs

====
